---- MODULE Spec2Model ----
(***************************************************************************)
(* Model of csi/iscsi.go: parsing of the iSCSI publish context into an     *)
(* iscsiDisk descriptor (getISCSIInfo), its projection into the transport  *)
(* connector (buildISCSIConnector), the endpoint parser and the CHAP       *)
(* secret extractors.                                                      *)
(*                                                                         *)
(* Go strings the code inspects character by character (portals, the       *)
(* portal list, the LUN, the endpoint) are sequences of one-character      *)
(* strings.  Strings the code only compares or passes on (IQN, flag        *)
(* strings, secret keys and values, error messages) are TLA+ strings.      *)
(* A map[string]string is a function whose DOMAIN is the set of keys; the  *)
(* nil map and the empty map are both the function with empty domain (the  *)
(* code only takes len() of it and looks keys up).                         *)
(***************************************************************************)
EXTENDS Integers, Sequences, FiniteSets, TLC

VARIABLES pc, ctx, disk, err, connector, fn, arg, ret

vars == <<pc, ctx, disk, err, connector, fn, arg, ret>>

----------------------------------------------------------------------------
(* Bounds of the explored inputs.                                          *)

\* longest target portal / descriptor portal string
MaxPortalLen == 2
\* longest comma-separated portal list string
MaxListLen == 2
\* most portals in a descriptor handed directly to buildISCSIConnector
MaxPortals == 2
\* longest endpoint remainder after the scheme prefix
MaxBodyLen == 4

----------------------------------------------------------------------------
(* Strings as character sequences.                                         *)

\* all sequences over alphabet A of length at most n
RECURSIVE StrsUpTo(_, _)
StrsUpTo(A, n) ==
    IF n = 0 THEN {<<>>}
    ELSE LET shorter == StrsUpTo(A, n - 1)
         IN  shorter \cup {Append(s, c) : s \in shorter, c \in A}

\* strings.Contains(s, c) for a one-character c
Contains(s, c) == \E i \in 1..Len(s) : s[i] = c

\* strings.Index(s, c) for a one-character c, 1-based; 0 when absent
Index(s, c) ==
    IF Contains(s, c)
    THEN CHOOSE i \in 1..Len(s) : s[i] = c /\ \A j \in 1..(i - 1) : s[j] # c
    ELSE 0

\* strings.Split(s, sep) for a one-character, non-empty sep: cut at every
\* occurrence of sep; a string without sep (the empty string included) gives
\* the one-element slice holding s itself, so the result is never empty
RECURSIVE Split(_, _)
Split(s, sep) ==
    LET i == Index(s, sep)
    IN  IF i = 0 THEN <<s>>
        ELSE <<SubSeq(s, 1, i - 1)>> \o Split(SubSeq(s, i + 1, Len(s)), sep)

\* s[0:n] == p for a string s of length at least n
HasPrefixAt(s, p) == SubSeq(s, 1, Len(p)) = p

----------------------------------------------------------------------------
(* strconv.Atoi and the int32 conversion of its result.                    *)
(* A Go int is 64 bits wide on the platforms the driver is built for.  The *)
(* parsed magnitude is kept as four 16-bit limbs, least significant first, *)
(* so that the 64-bit range test and the truncation to 32 bits are exact.  *)

Digits == {"0", "1", "2", "3", "4", "5", "6", "7", "8", "9"}

DigitVal(c) ==
    CASE c = "0" -> 0 [] c = "1" -> 1 [] c = "2" -> 2 [] c = "3" -> 3
      [] c = "4" -> 4 [] c = "5" -> 5 [] c = "6" -> 6 [] c = "7" -> 7
      [] c = "8" -> 8 [] c = "9" -> 9

B16 == 256 * 256

ZeroLimbs == [l |-> <<0, 0, 0, 0>>, ovf |-> FALSE]

\* n*10 + d on the limbs; ovf records a carry out of the 64th bit
MulAdd(acc, d) ==
    LET t1 == acc.l[1] * 10 + d
        t2 == acc.l[2] * 10 + (t1 \div B16)
        t3 == acc.l[3] * 10 + (t2 \div B16)
        t4 == acc.l[4] * 10 + (t3 \div B16)
    IN  [l   |-> <<t1 % B16, t2 % B16, t3 % B16, t4 % B16>>,
         ovf |-> acc.ovf \/ (t4 \div B16) > 0]

\* the digit loop of Atoi / ParseUint over an all-digit string
RECURSIVE ParseDigits(_, _)
ParseDigits(s, acc) ==
    IF s = <<>> THEN acc
    ELSE ParseDigits(Tail(s), MulAdd(acc, DigitVal(Head(s))))

\* strconv.Atoi(s): [ok, neg, l] with l the limbs of the magnitude, or
\* [ok |-> FALSE, err] for a syntax error or a value outside the int range
Atoi(s) ==
    LET signed == s # <<>> /\ Head(s) \in {"-", "+"}
        neg    == s # <<>> /\ Head(s) = "-"
        body   == IF signed THEN Tail(s) ELSE s
    IN  IF body = <<>> \/ \E i \in 1..Len(body) : body[i] \notin Digits
        THEN [ok |-> FALSE, err |-> "strconv.Atoi: invalid syntax"]
        ELSE LET m    == ParseDigits(body, ZeroLimbs)
                 half == B16 \div 2
                 \* !neg && un >= 1<<63, or neg && un > 1<<63
                 out  == \/ m.ovf
                         \/ m.l[4] > half
                         \/ m.l[4] = half /\ ~neg
                         \/ m.l[4] = half /\ (m.l[1] # 0 \/ m.l[2] # 0 \/ m.l[3] # 0)
             IN  IF out
                 THEN [ok |-> FALSE, err |-> "strconv.Atoi: value out of range"]
                 ELSE [ok |-> TRUE, neg |-> neg, l |-> m.l]

\* int32(l) of an Atoi result: the low 32 bits of the two's-complement
\* representation, read as a signed number
Int32Of(a) ==
    LET lo == IF ~a.neg THEN a.l[1]
              ELSE IF a.l[1] = 0 THEN 0 ELSE B16 - a.l[1]
        hi == IF ~a.neg THEN a.l[2]
              ELSE IF a.l[1] = 0 THEN (B16 - a.l[2]) % B16
              ELSE B16 - 1 - a.l[2]
    IN  IF hi >= B16 \div 2 THEN (hi - B16) * B16 + lo ELSE hi * B16 + lo

----------------------------------------------------------------------------
(* encoding/json: the secret blob is a sequence of JSON tokens.  Blobs are *)
(* drawn from documents whose member values are scalars, so Unmarshal      *)
(* either reads an object of scalar members, reads null, or fails.         *)

Punct(c) == [t |-> "punct", v |-> c]
Str(s)   == [t |-> "str", v |-> s]
Num(n)   == [t |-> "num", v |-> n]
Null     == [t |-> "null", v |-> "null"]

IsScalar(tok) == tok.t \in {"str", "num", "null"}

\* the members of an object after its opening brace: the tokens toks hold
\* (key : value , key : value ... }) and nothing after the closing brace
RECURSIVE ValidMembers(_)
ValidMembers(toks) ==
    /\ Len(toks) >= 4
    /\ toks[1].t = "str"
    /\ toks[2] = Punct(":")
    /\ IsScalar(toks[3])
    /\ \/ toks[4] = Punct("}") /\ Len(toks) = 4
       \/ toks[4] = Punct(",") /\ ValidMembers(SubSeq(toks, 5, Len(toks)))

\* checkValid: the blob is exactly one JSON value
ValidJSON(toks) ==
    \/ Len(toks) = 1 /\ IsScalar(toks[1])
    \/ toks = <<Punct("{"), Punct("}")>>
    \/ Len(toks) > 2 /\ toks[1] = Punct("{") /\ ValidMembers(Tail(toks))

\* the members of a valid object in document order, as <<key, value token>>
RECURSIVE Members(_)
Members(toks) ==
    IF Len(toks) < 4 THEN <<>>
    ELSE <<<<toks[1].v, toks[3]>>>> \o Members(SubSeq(toks, 5, Len(toks)))

\* json.Unmarshal(blob, &map[string]string): [ok, m].  A string member is
\* stored, a null member stores "", a number member is a type error; a
\* later member with the same key overwrites an earlier one.  A top-level
\* null leaves the map nil; any other top-level scalar is a type error.
Unmarshal(toks) ==
    IF ~ValidJSON(toks) THEN [ok |-> FALSE, m |-> <<>>]
    ELSE IF toks = <<Null>> THEN [ok |-> TRUE, m |-> <<>>]
    ELSE IF Len(toks) = 1 THEN [ok |-> FALSE, m |-> <<>>]
    ELSE LET ms   == Members(Tail(toks))
             keys == {ms[i][1] : i \in 1..Len(ms)}
             last(k) == CHOOSE i \in 1..Len(ms) :
                           ms[i][1] = k /\ \A j \in (i + 1)..Len(ms) : ms[j][1] # k
             val(tok) == IF tok.t = "str" THEN tok.v ELSE ""
         IN  [ok |-> \A i \in 1..Len(ms) : ms[i][2].t # "num",
              m  |-> [k \in keys |-> val(ms[last(k)][2])]]

----------------------------------------------------------------------------
(* csi/iscsi.go                                                            *)

\* const defaultPort = "3260"
defaultPort == <<"3", "2", "6", "0">>

ISCSIScheme == <<"i", "s", "c", "s", "i", ":", "/", "/">>

\* a returned error, by its message
Error(msg) == [kind |-> "error", msg |-> msg]
\* a run-time panic of the Go runtime
Panic(msg) == [kind |-> "panic", msg |-> msg]

\* parseISCSIEndpoint(endpoint): endpoint[0:8] panics when the string is
\* shorter than eight bytes
parseISCSIEndpoint(endpoint) ==
    IF Len(endpoint) < Len(ISCSIScheme)
    THEN Panic("slice bounds out of range")
    ELSE IF ~HasPrefixAt(endpoint, ISCSIScheme)
    THEN Error("endpoint does not start with iscsi://")
    ELSE LET toks == Split(SubSeq(endpoint, Len(ISCSIScheme) + 1, Len(endpoint)), "/")
         IN  IF Len(toks) # 3
             THEN Error("invalid iscsi endpoint")
             ELSE [kind |-> "ok", portal |-> toks[1], iqn |-> toks[2], lun |-> toks[3]]

\* a portalMounter that never appends the default port
portalMounter_NoDefault(portal) == portal

\* portalMounter(portal)
portalMounter(portal) ==
    IF ~Contains(portal, ":") THEN portal \o <<":">> \o <<"3", "2", "6", "0">>
    ELSE portal

\* parseSecret(secretParams): nil when the blob does not unmarshal
parseSecret(secretParams) ==
    LET r == Unmarshal(secretParams)
    IN  IF ~r.ok THEN <<>> ELSE r.m

\* iscsiLib.Secrets{}
ZeroSecrets ==
    [SecretsType |-> "", UserName |-> "", Password |-> "",
     UserNameIn |-> "", PasswordIn |-> ""]

NotFound(key) == key \o " not found in secret"

SessionKeys ==
    <<"node.session.auth.username", "node.session.auth.password",
      "node.session.auth.username_in", "node.session.auth.password_in">>

DiscoveryKeys ==
    <<"node.sendtargets.auth.username", "node.sendtargets.auth.password",
      "node.sendtargets.auth.username_in", "node.sendtargets.auth.password_in">>

\* the body shared by parseSessionSecret and parseDiscoverySecret: the four
\* lookups in order, the first missing key ending the call with its error
\* and the zero Secrets
parseScope(secretParams, keys) ==
    LET has(i) == keys[i] \in DOMAIN secretParams
    IN  IF Cardinality(DOMAIN secretParams) = 0
        THEN [secret |-> ZeroSecrets, err |-> ""]
        ELSE IF ~has(1) THEN [secret |-> ZeroSecrets, err |-> NotFound(keys[1])]
        ELSE IF ~has(2) THEN [secret |-> ZeroSecrets, err |-> NotFound(keys[2])]
        ELSE IF ~has(3) THEN [secret |-> ZeroSecrets, err |-> NotFound(keys[3])]
        ELSE IF ~has(4) THEN [secret |-> ZeroSecrets, err |-> NotFound(keys[4])]
        ELSE [secret |-> [SecretsType |-> "chap",
                          UserName    |-> secretParams[keys[1]],
                          Password    |-> secretParams[keys[2]],
                          UserNameIn  |-> secretParams[keys[3]],
                          PasswordIn  |-> secretParams[keys[4]]],
              err    |-> ""]

\* a parseSessionSecret that looks up the discovery keys
parseSessionSecret_WrongKeys(secretParams) == parseScope(secretParams, DiscoveryKeys)

\* parseSessionSecret(secretParams)
parseSessionSecret(secretParams) == parseScope(secretParams, SessionKeys)

\* a parseDiscoverySecret that treats an incomplete scope as an absent one
parseDiscoverySecret_Lenient(secretParams) ==
    IF \A i \in 1..4 : DiscoveryKeys[i] \in DOMAIN secretParams
    THEN parseScope(secretParams, DiscoveryKeys)
    ELSE [secret |-> ZeroSecrets, err |-> ""]

\* parseDiscoverySecret(secretParams)
parseDiscoverySecret(secretParams) == parseScope(secretParams, DiscoveryKeys)

NilDisk == [kind |-> "nil"]

\* the portal sequence built by getISCSIInfo: the target portal, then every
\* element of the split list, each through portalMounter
bkportal(tp, portalList) ==
    LET portals == Split(portalList, ",")
    IN  <<portalMounter(tp)>> \o [i \in 1..Len(portals) |-> portalMounter(portals[i])]

\* getISCSIInfo(req, ctx): [disk, err], disk = NilDisk exactly when err # ""
getISCSIInfo(volName, c) ==
    IF c.TargetPortal = <<>> \/ c.IQN = "" \/ c.Lun = <<>>
    THEN [disk |-> NilDisk, err |-> "iSCSI target information is missing"]
    ELSE LET secret          == parseSecret(c.Secret)
             sessionSecret   == parseSessionSecret(secret)
             discoverySecret == parseDiscoverySecret(secret)
             portals         == Split(c.Portals, ",")
             l               == Atoi(c.Lun)
         IN  IF sessionSecret.err # ""
             THEN [disk |-> NilDisk, err |-> sessionSecret.err]
             ELSE IF discoverySecret.err # ""
             THEN [disk |-> NilDisk, err |-> discoverySecret.err]
             ELSE IF Len(portals) = 0
             THEN [disk |-> NilDisk, err |-> "no portals provided"]
             ELSE IF ~l.ok
             THEN [disk |-> NilDisk, err |-> l.err]
             ELSE [disk |-> [kind            |-> "disk",
                             VolName         |-> volName,
                             Portals         |-> bkportal(c.TargetPortal, c.Portals),
                             Iqn             |-> c.IQN,
                             lun             |-> Int32Of(l),
                             Iface           |-> c.ISCSIInterface,
                             chapDiscovery   |-> (c.DiscoveryCHAPAuth = "true"),
                             chapSession     |-> (c.SessionCHAPAuth = "true"),
                             secret          |-> secret,
                             sessionSecret   |-> sessionSecret.secret,
                             discoverySecret |-> discoverySecret.secret,
                             InitiatorName   |-> c.InitiatorName],
                   err  |-> ""]

\* one iscsiLib.TargetInfo of buildISCSIConnector's loop
TargetOf(iqn, portal) ==
    IF Contains(portal, ":")
    THEN LET toks == Split(portal, ":")
         IN  [Iqn |-> iqn, Port |-> toks[2], Portal |-> toks[1]]
    ELSE [Iqn |-> iqn, Port |-> defaultPort, Portal |-> portal]

\* a multipath flag set from one portal on
MultipathOf_AtLeastOne(d) == Len(d.Portals) >= 1

\* Multipath: len(iscsiInfo.Portals) > 1
MultipathOf(d) == Len(d.Portals) > 1

\* c.SessionSecrets after the credential block
SessionSecretsOf(d) ==
    IF d.sessionSecret # ZeroSecrets THEN d.sessionSecret ELSE ZeroSecrets

\* discovery credentials attached whenever the discovery scope is there
DiscoverySecretsOf_Alone(d) ==
    IF d.discoverySecret # ZeroSecrets THEN d.discoverySecret ELSE ZeroSecrets

\* c.DiscoverySecrets after the credential block: the assignment is nested
\* in the test of the session scope
DiscoverySecretsOf(d) ==
    IF d.sessionSecret # ZeroSecrets
    THEN IF d.discoverySecret # ZeroSecrets THEN d.discoverySecret ELSE ZeroSecrets
    ELSE ZeroSecrets

\* buildISCSIConnector(iscsiInfo)
buildISCSIConnector(d) ==
    [kind             |-> "connector",
     VolumeName       |-> d.VolName,
     Targets          |-> [i \in 1..Len(d.Portals) |-> TargetOf(d.Iqn, d.Portals[i])],
     TargetIqn        |-> d.Iqn,
     TargetPortals    |-> d.Portals,
     Lun              |-> d.lun,
     Multipath        |-> MultipathOf(d),
     DoDiscovery      |-> TRUE,
     SessionSecrets   |-> SessionSecretsOf(d),
     DiscoverySecrets |-> DiscoverySecretsOf(d)]

----------------------------------------------------------------------------
(* Inputs.                                                                 *)

\* portal strings: host characters and the port delimiter
PortalStrs == StrsUpTo({"h", ":"}, MaxPortalLen)

\* comma-separated portal lists
PortalLists == StrsUpTo({"h", ":", ","}, MaxListLen)

IQNs == {"", "iqn.test"}

\* decimal numerals used as LUN strings
Numeral(name) ==
    CASE name = "0"      -> <<"0">>
      [] name = "7"      -> <<"7">>
      [] name = "2^31-1" -> <<"2", "1", "4", "7", "4", "8", "3", "6", "4", "7">>
      [] name = "2^31"   -> <<"2", "1", "4", "7", "4", "8", "3", "6", "4", "8">>
      [] name = "2^32+1" -> <<"4", "2", "9", "4", "9", "6", "7", "2", "9", "7">>
      [] name = "2^63"   -> <<"9", "2", "2", "3", "3", "7", "2", "0", "3", "6",
                              "8", "5", "4", "7", "7", "5", "8", "0", "8">>

\* LUN strings: empty, not a number, a bare sign, small, signed, with a
\* leading zero, the ends of the int32 range, beyond it, and beyond the
\* int64 range
Luns ==
    { <<>>, <<"x">>, <<"-">>,
      Numeral("0"), <<"-">> \o Numeral("7"), <<"0">> \o Numeral("7"),
      Numeral("2^31-1"), <<"-">> \o Numeral("2^31"),
      Numeral("2^31"), Numeral("2^32+1"), Numeral("2^63") }

\* the value stored under key k in the encoded blobs: one per key
ValueOf(k) == "v:" \o k

\* the JSON object with the given <<key, value token>> members
RECURSIVE EncodeMembers(_)
EncodeMembers(ms) ==
    IF Len(ms) = 0 THEN <<Punct("}")>>
    ELSE <<Str(ms[1][1]), Punct(":"), ms[1][2]>>
         \o (IF Len(ms) = 1 THEN <<>> ELSE <<Punct(",")>>)
         \o EncodeMembers(Tail(ms))

Encode(ms) == <<Punct("{")>> \o EncodeMembers(ms)

StrMembers(keys) == [i \in 1..Len(keys) |-> <<keys[i], Str(ValueOf(keys[i]))>>]

FullBlob == Encode(StrMembers(SessionKeys \o DiscoveryKeys))

\* secret blobs: the empty string, {}, all eight fields, one scope only,
\* a document with a number member, a truncated document
SecretBlobs ==
    { <<>>, Encode(<<>>),
      FullBlob,
      Encode(StrMembers(SessionKeys)),
      Encode(StrMembers(DiscoveryKeys)),
      Encode(StrMembers(SessionKeys \o DiscoveryKeys) \o <<<<"extra", Num("1")>>>>),
      SubSeq(FullBlob, 1, Len(FullBlob) - 1) }

Flags == {"true", "false"}

Contexts ==
    [TargetPortal      : PortalStrs,
     IQN               : IQNs,
     Lun               : Luns,
     Portals           : PortalLists,
     Secret            : SecretBlobs,
     ISCSIInterface    : {"default"},
     InitiatorName     : {""},
     DiscoveryCHAPAuth : Flags,
     SessionCHAPAuth   : Flags]

VolumeId == "pvc-1"

----------------------------------------------------------------------------
(* The publish path: getISCSIInfo, then getISCSIDiskMounter, which builds  *)
(* the connector from the descriptor.                                      *)

NilConnector == [kind |-> "nil"]
NoContext == [kind |-> "none"]

Init ==
    /\ pc = "start"
    /\ ctx = NoContext
    /\ disk = NilDisk
    /\ err = ""
    /\ connector = NilConnector
    /\ fn = "none"
    /\ arg = <<>>
    /\ ret = <<>>

GetISCSIInfo ==
    /\ pc = "start"
    /\ fn = "none"
    /\ \E c \in Contexts :
          LET r == getISCSIInfo(VolumeId, c)
          IN  /\ ctx' = c
              /\ disk' = r.disk
              /\ err' = r.err
              /\ pc' = IF r.err # "" THEN "failed" ELSE "info"
    /\ UNCHANGED <<connector, fn, arg, ret>>

\* getISCSIDiskMounter(iscsiInfo, req): connector: buildISCSIConnector(iscsiInfo)
GetISCSIDiskMounter ==
    /\ pc = "info"
    /\ connector' = buildISCSIConnector(disk)
    /\ pc' = "mounter"
    /\ UNCHANGED <<ctx, disk, err, fn, arg, ret>>

Next == GetISCSIInfo \/ GetISCSIDiskMounter

Spec == Init /\ [][Next]_vars

----------------------------------------------------------------------------
(* The functions of the file applied directly to arbitrary arguments.      *)

SecretValues == {"", "s3cret"}

AllKeys ==
    {SessionKeys[i] : i \in 1..4} \cup {DiscoveryKeys[i] : i \in 1..4} \cup {"extra"}

\* decoded credential mappings: any subset of the keys, any values
SecretMaps == UNION {[K -> SecretValues] : K \in SUBSET AllKeys}

\* endpoint strings: with the scheme, with another scheme, with none
Bodies == StrsUpTo({"a", "/"}, MaxBodyLen)

Endpoints ==
    {ISCSIScheme \o b : b \in Bodies}
    \cup {<<"t", "c", "p", ":", "/", "/">> \o b : b \in Bodies}
    \cup Bodies

\* Secrets values of a descriptor: zero, fully populated, and populated
\* with empty credentials
SomeSecrets(keys) ==
    { ZeroSecrets,
      [SecretsType |-> "chap", UserName |-> ValueOf(keys[1]),
       Password |-> ValueOf(keys[2]), UserNameIn |-> ValueOf(keys[3]),
       PasswordIn |-> ValueOf(keys[4])],
      [ZeroSecrets EXCEPT !.SecretsType = "chap"] }

PortalSeqs == UNION {[1..n -> PortalStrs] : n \in 0..MaxPortals}

\* iscsiDisk values, whether or not getISCSIInfo can produce them
Disks ==
    [kind            : {"disk"},
     VolName         : {VolumeId},
     Portals         : PortalSeqs,
     Iqn             : {"iqn.a", "iqn.b"},
     lun             : {0},
     Iface           : {"default"},
     chapDiscovery   : {FALSE},
     chapSession     : {FALSE},
     secret          : {<<>>},
     sessionSecret   : SomeSecrets(SessionKeys),
     discoverySecret : SomeSecrets(DiscoveryKeys),
     InitiatorName   : {""}]

CallParseISCSIEndpoint ==
    /\ fn = "none"
    /\ \E e \in Endpoints :
          /\ arg' = e
          /\ ret' = parseISCSIEndpoint(e)
    /\ fn' = "parseISCSIEndpoint"
    /\ UNCHANGED <<pc, ctx, disk, err, connector>>

CallParseSessionSecret ==
    /\ fn = "none"
    /\ \E m \in SecretMaps :
          /\ arg' = m
          /\ ret' = parseSessionSecret(m)
    /\ fn' = "parseSessionSecret"
    /\ UNCHANGED <<pc, ctx, disk, err, connector>>

CallParseDiscoverySecret ==
    /\ fn = "none"
    /\ \E m \in SecretMaps :
          /\ arg' = m
          /\ ret' = parseDiscoverySecret(m)
    /\ fn' = "parseDiscoverySecret"
    /\ UNCHANGED <<pc, ctx, disk, err, connector>>

CallBuildISCSIConnector ==
    /\ fn = "none"
    /\ \E d \in Disks :
          /\ arg' = d
          /\ ret' = buildISCSIConnector(d)
    /\ fn' = "buildISCSIConnector"
    /\ UNCHANGED <<pc, ctx, disk, err, connector>>

FnNext ==
    \/ CallParseISCSIEndpoint
    \/ CallParseSessionSecret
    \/ CallParseDiscoverySecret
    \/ CallBuildISCSIConnector

FnSpec == Init /\ [][FnNext]_vars

----------------------------------------------------------------------------
(* Vocabulary of the properties, stated without the operators above.       *)

Returned == pc \in {"info", "mounter"}
Failed   == pc = "failed"

Present(secrets) == secrets # ZeroSecrets

\* positions of character c in s, and the k-th of them (0 before the first,
\* Len(s) + 1 after the last)
Positions(s, c) == {i \in 1..Len(s) : s[i] = c}

Cut(s, c, k) ==
    IF k = 0 THEN 0
    ELSE IF k > Cardinality(Positions(s, c)) THEN Len(s) + 1
    ELSE CHOOSE i \in Positions(s, c) :
            Cardinality({j \in Positions(s, c) : j < i}) = k - 1

\* the k-th field of s when c delimits fields
Field(s, c, k) == SubSeq(s, Cut(s, c, k - 1) + 1, Cut(s, c, k) - 1)

FieldCount(s, c) == Cardinality(Positions(s, c)) + 1

\* p with the default port when it names none
Normalized(p) ==
    IF Positions(p, ":") = {} THEN p \o <<":", "3", "2", "6", "0">> ELSE p

\* the portal sequence the specification describes for a context
ExpectedPortals(c) ==
    <<Normalized(c.TargetPortal)>>
    \o [k \in 1..FieldCount(c.Portals, ",") |-> Normalized(Field(c.Portals, ",", k))]

\* s is an optionally signed, non-empty run of decimal digits
IsDecimal(s) ==
    LET body == IF s # <<>> /\ s[1] \in {"+", "-"} THEN Tail(s) ELSE s
    IN  body # <<>> /\ \A i \in 1..Len(body) : body[i] \in Digits

\* the digits of a decimal string without sign and leading zeros
RECURSIVE StripZeros(_)
StripZeros(s) == IF Len(s) > 1 /\ s[1] = "0" THEN StripZeros(Tail(s)) ELSE s

Magnitude(s) == StripZeros(IF s[1] \in {"+", "-"} THEN Tail(s) ELSE s)

\* the canonical numeral of the integer a decimal string denotes
Canon(s) ==
    IF s[1] = "-" /\ Magnitude(s) # <<"0">> THEN <<"-">> \o Magnitude(s)
    ELSE Magnitude(s)

\* numerals of equal length compare digit by digit
RECURSIVE NumeralLeq(_, _)
NumeralLeq(a, b) ==
    IF a = <<>> THEN TRUE
    ELSE IF a[1] # b[1] THEN DigitVal(a[1]) < DigitVal(b[1])
    ELSE NumeralLeq(Tail(a), Tail(b))

MaxInt64 ==
    <<"9", "2", "2", "3", "3", "7", "2", "0", "3", "6",
      "8", "5", "4", "7", "7", "5", "8", "0", "7">>

\* the integer a decimal string denotes lies in -2^63 .. 2^63 - 1
FitsInt64(s) ==
    LET m == Magnitude(s)
    IN  \/ Len(m) < Len(MaxInt64)
        \/ Len(m) = Len(MaxInt64) /\ NumeralLeq(m, MaxInt64)
        \/ s[1] = "-" /\ m = Numeral("2^63")

DigitChar(d) == CHOOSE c \in Digits : DigitVal(c) = d

\* the numeral of a natural number
RECURSIVE NatNumeral(_)
NatNumeral(n) ==
    IF n < 10 THEN <<DigitChar(n)>>
    ELSE Append(NatNumeral(n \div 10), DigitChar(n % 10))

\* the numeral of an int32; a negative v is -(q*10 + r) with q, r taken
\* from the floored division so that no intermediate leaves the int32 range
IntNumeral(v) ==
    IF v >= 0 THEN NatNumeral(v)
    ELSE LET r == v % 10
             q == IF r = 0 THEN -(v \div 10) ELSE -(v \div 10) - 1
             d == IF r = 0 THEN 0 ELSE 10 - r
         IN  <<"-">> \o (IF q = 0 THEN <<>> ELSE NatNumeral(q)) \o <<DigitChar(d)>>

Required(c) == c.TargetPortal # <<>> /\ c.IQN # "" /\ c.Lun # <<>>

\* the decoded secret holds no field at all, or all eight
SecretEmptyOrComplete(c) ==
    LET m == parseSecret(c.Secret)
    IN  DOMAIN m = {} \/ (AllKeys \ {"extra"}) \subseteq DOMAIN m

----------------------------------------------------------------------------
(* Properties.                                                             *)

\* the precondition of C1: required fields present, a decimal LUN, a
\* non-empty portal list, a secret that is empty or complete
C1_Pre == /\ pc # "start"
          /\ Required(ctx)
          /\ IsDecimal(ctx.Lun)
          /\ ctx.Portals # <<>>
          /\ SecretEmptyOrComplete(ctx)

\* C1 as stated: every context with target portal, IQN and LUN present, a
\* decimal LUN, a non-empty portal list and an empty or complete secret
\* yields a descriptor whose Portals are the normalized target portal
\* followed by the normalized list elements, in order, duplicates kept.
C1_PortalsForEveryDecimalLun ==
    C1_Pre => Returned /\ disk.Portals = ExpectedPortals(ctx)

\* C1 amended: the same for every such context whose decimal LUN lies in
\* the range of a Go int (-2^63 .. 2^63 - 1).
C1_PortalSequence ==
    C1_Pre /\ FitsInt64(ctx.Lun) => Returned /\ disk.Portals = ExpectedPortals(ctx)

\* C1 witness: a descriptor built from target portal "h" and list "h,":
\* the duplicate of the target portal is kept and the empty element is
\* normalized too.
C1_Witness ==
    /\ C1_Pre /\ FitsInt64(ctx.Lun) /\ pc = "info"
    /\ ctx.TargetPortal = <<"h">> /\ ctx.Portals = <<"h", ",">>
    /\ Len(disk.Portals) = 3 /\ disk.Portals[1] = disk.Portals[2]

\* C2: a context with target portal, IQN and LUN present and an empty
\* portal list makes getISCSIInfo fail with "no portals provided" and
\* return no descriptor.  Stated on the contexts that are valid in every
\* other respect, where no other error can come first.
C2_EmptyPortalListRejected ==
    /\ pc # "start" /\ Required(ctx) /\ ctx.Portals = <<>>
    /\ IsDecimal(ctx.Lun) /\ FitsInt64(ctx.Lun) /\ SecretEmptyOrComplete(ctx)
    => Failed /\ disk = NilDisk /\ err = "no portals provided"

\* the keys of the scope a secret extractor reads
ScopeKeys == IF fn = "parseSessionSecret" THEN SessionKeys ELSE DiscoveryKeys

\* the extractor returned a populated scope carrying the mapping's four values
C3_Populated ==
    /\ ret.err = ""
    /\ Present(ret.secret)
    /\ ret.secret.UserName = arg[ScopeKeys[1]]
    /\ ret.secret.Password = arg[ScopeKeys[2]]
    /\ ret.secret.UserNameIn = arg[ScopeKeys[3]]
    /\ ret.secret.PasswordIn = arg[ScopeKeys[4]]

\* the extractor failed naming a missing field and returned the zero scope
C3_Incomplete ==
    /\ \E i \in 1..4 : /\ ScopeKeys[i] \notin DOMAIN arg
                       /\ ret.err = ScopeKeys[i] \o " not found in secret"
    /\ ret.secret = ZeroSecrets

C3_AllFour == \A i \in 1..4 : ScopeKeys[i] \in DOMAIN arg

\* C3 as stated: for every mapping, all four fields of the scope present
\* gives the populated scope, and any field missing gives the error naming
\* a missing field with the zero scope.
C3_EveryMapping ==
    fn \in {"parseSessionSecret", "parseDiscoverySecret"}
        => IF C3_AllFour THEN C3_Populated ELSE C3_Incomplete

\* C3 amended: the same for every non-empty mapping; the empty mapping
\* gives the zero scope and no error.
C3_NonEmptyMapping ==
    fn \in {"parseSessionSecret", "parseDiscoverySecret"}
        => IF DOMAIN arg = {} THEN ret.err = "" /\ ret.secret = ZeroSecrets
           ELSE IF C3_AllFour THEN C3_Populated ELSE C3_Incomplete

\* C3 witness: the discovery extractor on a mapping holding the first three
\* discovery fields but not password_in.
C3_Witness ==
    /\ fn = "parseDiscoverySecret"
    /\ {DiscoveryKeys[1], DiscoveryKeys[2], DiscoveryKeys[3]} \subseteq DOMAIN arg
    /\ DiscoveryKeys[4] \notin DOMAIN arg
    /\ ret.err = "node.sendtargets.auth.password_in not found in secret"
    /\ ret.secret = ZeroSecrets

\* C4: a returned descriptor with chapDiscovery (chapSession) set carries
\* the discovery (session) scope, and a context asking for CHAP on a scope
\* whose credentials are not there makes getISCSIInfo fail.
C4_ChapFlagImpliesScope ==
    /\ Returned => /\ disk.chapDiscovery => Present(disk.discoverySecret)
                   /\ disk.chapSession => Present(disk.sessionSecret)
    /\ pc # "start" /\ Required(ctx) /\ DOMAIN parseSecret(ctx.Secret) = {}
          /\ "true" \in {ctx.DiscoveryCHAPAuth, ctx.SessionCHAPAuth}
          => Failed

\* the endpoint has the scheme and exactly three segments after it
C5_WellFormed(e) ==
    /\ Len(e) >= 8
    /\ SubSeq(e, 1, 8) = <<"i", "s", "c", "s", "i", ":", "/", "/">>
    /\ FieldCount(SubSeq(e, 9, Len(e)), "/") = 3

\* C5: parseISCSIEndpoint returns on every string: an error unless the
\* string has the iscsi:// prefix and exactly three segments, and then the
\* three segments unmodified.
C5_TotalEndpointParser ==
    fn = "parseISCSIEndpoint"
        => IF C5_WellFormed(arg)
           THEN LET body == SubSeq(arg, 9, Len(arg))
                IN  ret = [kind |-> "ok", portal |-> Field(body, "/", 1),
                           iqn |-> Field(body, "/", 2), lun |-> Field(body, "/", 3)]
           ELSE ret.kind = "error"

\* C6: the connector's SessionSecrets are the descriptor's session scope
\* iff that scope is present, and its DiscoverySecrets are the descriptor's
\* discovery scope iff both scopes are present; otherwise they are unset.
C6_CredentialAttachment ==
    fn = "buildISCSIConnector"
        => /\ ret.SessionSecrets =
                 (IF Present(arg.sessionSecret) THEN arg.sessionSecret ELSE ZeroSecrets)
           /\ ret.DiscoverySecrets =
                 (IF Present(arg.sessionSecret) /\ Present(arg.discoverySecret)
                  THEN arg.discoverySecret ELSE ZeroSecrets)

\* C6 witness: a descriptor with the discovery scope only; the connector
\* carries neither scope.
C6_Witness ==
    /\ fn = "buildISCSIConnector"
    /\ ~Present(arg.sessionSecret) /\ Present(arg.discoverySecret)
    /\ ret.SessionSecrets = ZeroSecrets /\ ret.DiscoverySecrets = ZeroSecrets

\* C7: a descriptor is returned only for a decimal LUN string and its lun
\* is the integer the string denotes; an empty or non-numeric LUN fails
\* getISCSIInfo, and no connector is built after a failure.
C7_LunIsDenotedInteger ==
    /\ Returned => IsDecimal(ctx.Lun) /\ IntNumeral(disk.lun) = Canon(ctx.Lun)
    /\ pc # "start" /\ ~IsDecimal(ctx.Lun) => Failed /\ disk = NilDisk
    /\ Failed => connector = NilConnector

\* C8: Multipath is set iff the descriptor has more than one portal, and
\* DoDiscovery is always set.
C8_MultipathAndDiscovery ==
    fn = "buildISCSIConnector"
        => /\ ret.Multipath <=> Len(arg.Portals) > 1
           /\ ret.DoDiscovery

\* C8 witness: a descriptor with exactly one portal, Multipath unset.
C8_Witness ==
    /\ fn = "buildISCSIConnector"
    /\ Len(arg.Portals) = 1
    /\ ~ret.Multipath /\ ret.DoDiscovery

\* C9: Targets follow Portals one to one, each with the descriptor's IQN;
\* host and port of a portal with ':' join back to the portal, and a portal
\* without ':' is the host with port 3260.
C9_TargetsMirrorPortals ==
    fn = "buildISCSIConnector"
        => /\ Len(ret.Targets) = Len(arg.Portals)
           /\ \A i \in 1..Len(arg.Portals) :
                 /\ ret.Targets[i].Iqn = arg.Iqn
                 /\ IF Positions(arg.Portals[i], ":") # {}
                    THEN ret.Targets[i].Portal \o <<":">> \o ret.Targets[i].Port
                            = arg.Portals[i]
                    ELSE /\ ret.Targets[i].Portal = arg.Portals[i]
                         /\ ret.Targets[i].Port = <<"3", "2", "6", "0">>

\* C10: a returned descriptor has the session scope iff it has the
\* discovery scope, and the connector built from it carries both
\* SessionSecrets and DiscoverySecrets or neither.
C10_BothScopesOrNeither ==
    /\ Returned => (Present(disk.sessionSecret) <=> Present(disk.discoverySecret))
    /\ pc = "mounter" =>
          (Present(connector.SessionSecrets) <=> Present(connector.DiscoverySecrets))

\* C10 witness: a connector built from a descriptor of a complete secret,
\* carrying both scopes.
C10_Witness ==
    /\ pc = "mounter"
    /\ Present(disk.sessionSecret) /\ Present(disk.discoverySecret)
    /\ connector.SessionSecrets = disk.sessionSecret
    /\ connector.DiscoverySecrets = disk.discoverySecret

====
